---- MODULE Spec2Model ----
(***************************************************************************)
(* Model of the word transformer (src/word_transform/transform.py) and of  *)
(* its HTTP end point (src/word_transform/views.py).                       *)
(*                                                                         *)
(* A text is a sequence of one-character strings.  One behaviour is one    *)
(* call: either a POST handled by word_transform(request), or a direct     *)
(* call of transform_words(json_string), optionally followed by a second   *)
(* call on the value the first one returned.                               *)
(***************************************************************************)
EXTENDS Integers, Sequences, FiniteSets, TLC

VARIABLES entry, request_body, json_string, first_arg, calls, pc,
          decoded_input, current_char_idx, current_state,
          current_token_buffer, finished_token, tokens, pending_tokens,
          chunks, exception, result, status, content

vars == <<entry, request_body, json_string, first_arg, calls, pc,
          decoded_input, current_char_idx, current_state,
          current_token_buffer, finished_token, tokens, pending_tokens,
          chunks, exception, result, status, content>>

(***************************************************************************)
(* Bounds of the model.                                                    *)
(***************************************************************************)
MaxLen == 5
MaxWideLen == 2
RecursionLimit == 2
MaxCalls == 2
MaxFragments == 4

(***************************************************************************)
(* Characters.                                                             *)
(***************************************************************************)
VOWEL_CHARS == {"a", "e", "i", "o", "u", "y", "å", "ä", "ö"}
SPACE_CHARS == {" "}

CoreChars == {" ", "a", "b", "A", "Y"}
WideChars == VOWEL_CHARS \cup {"A", "I", "Y", "Ä"}
               \cup {"\t", "\n", "1", "'", ".", " ", "b"}

SeqsUpTo(S, n) == UNION {[1..k -> S] : k \in 0..n}

RECURSIVE Concat(_)
Concat(ss) == IF ss = <<>> THEN <<>> ELSE Head(ss) \o Concat(Tail(ss))

ExampleTexts ==
  { <<"f","o","o","m","a"," ","b","a","r","b","u">>,
    <<"I","'","d"," ","r","a","t","h","e","r">>,
    <<"a","a"," ","b","b"," ","c","c">>,
    <<" "," ","a","a"," ","b","b"," "," ">>,
    <<"Y","b","b"," ","A","b","a","a">>,
    <<"m","ä","ö","l","n","ö">> }

Texts == SeqsUpTo(CoreChars, MaxLen) \cup SeqsUpTo(WideChars, MaxWideLen)
           \cup ExampleTexts

(***************************************************************************)
(* Code points of the characters of the model (Python's ord), used by the  *)
(* UTF-8 codec of the end point.                                           *)
(***************************************************************************)
CodePoint ==
  " " :> 32 @@ "\t" :> 9 @@ "\n" :> 10 @@ "\r" :> 13 @@ "\f" :> 12 @@
  "\"" :> 34 @@ "\\" :> 92 @@ "'" :> 39 @@ "." :> 46 @@ "," :> 44 @@
  ":" :> 58 @@ "/" :> 47 @@ "{" :> 123 @@ "}" :> 125 @@ "[" :> 91 @@
  "]" :> 93 @@ "-" :> 45 @@ "0" :> 48 @@ "1" :> 49 @@ "2" :> 50 @@
  "3" :> 51 @@ "4" :> 52 @@ "5" :> 53 @@ "6" :> 54 @@ "7" :> 55 @@
  "8" :> 56 @@ "9" :> 57 @@ "a" :> 97 @@ "b" :> 98 @@ "c" :> 99 @@
  "d" :> 100 @@ "e" :> 101 @@ "f" :> 102 @@ "g" :> 103 @@ "h" :> 104 @@
  "i" :> 105 @@ "j" :> 106 @@ "k" :> 107 @@ "l" :> 108 @@ "m" :> 109 @@
  "n" :> 110 @@ "o" :> 111 @@ "p" :> 112 @@ "q" :> 113 @@ "r" :> 114 @@
  "s" :> 115 @@ "t" :> 116 @@ "u" :> 117 @@ "v" :> 118 @@ "w" :> 119 @@
  "x" :> 120 @@ "y" :> 121 @@ "z" :> 122 @@ "A" :> 65 @@ "I" :> 73 @@
  "Y" :> 89 @@ "C" :> 67 @@ "S" :> 83 @@ "å" :> 229 @@ "ä" :> 228 @@ "ö" :> 246 @@ "Ä" :> 196

Chars == DOMAIN CodePoint
Ord(c) == CodePoint[c]
Chr(n) == CHOOSE c \in Chars : CodePoint[c] = n

\* str.encode('utf-8') for code points below 2048
utf8_encode_char(c) ==
  IF Ord(c) < 128 THEN <<Ord(c)>>
  ELSE <<192 + (Ord(c) \div 64), 128 + (Ord(c) % 64)>>

RECURSIVE utf8_encode(_)
utf8_encode(s) ==
  IF s = <<>> THEN <<>> ELSE utf8_encode_char(Head(s)) \o utf8_encode(Tail(s))

\* bytes.decode('utf-8', 'strict') for one- and two-byte sequences; any
\* other lead byte of the model's bodies (128..193, 245..255) is invalid.
RECURSIVE utf8_decode(_, _, _)
utf8_decode(b, i, acc) ==
  IF i > Len(b) THEN [exc |-> "None", value |-> acc]
  ELSE IF b[i] < 128 THEN utf8_decode(b, i + 1, Append(acc, Chr(b[i])))
  ELSE IF /\ b[i] >= 194 /\ b[i] <= 223 /\ i + 1 <= Len(b)
          /\ b[i + 1] >= 128 /\ b[i + 1] <= 191
       THEN utf8_decode(b, i + 2,
                        Append(acc, Chr((b[i] - 192) * 64 + (b[i + 1] - 128))))
  ELSE [exc |-> "UnicodeDecodeError", value |-> <<>>]

(***************************************************************************)
(* The JSON codec of the standard library, as far as the inputs of the     *)
(* model exercise it: json.dumps of a str and json.loads of a str.         *)
(***************************************************************************)
NonAscii == {c \in Chars : Ord(c) >= 128}

\* '\\u{0:04x}'.format(ord(c)) for the non-ASCII characters of the model
UnicodeHex ==
  "å" :> <<"0","0","e","5">> @@ "ä" :> <<"0","0","e","4">> @@
  "ö" :> <<"0","0","f","6">> @@ "Ä" :> <<"0","0","c","4">>

\* json.encoder.ESCAPE_DCT, the entries the model's characters need
ESCAPE_DCT ==
  "\\" :> <<"\\","\\">> @@ "\"" :> <<"\\","\"">> @@ "\n" :> <<"\\","n">> @@
  "\r" :> <<"\\","r">> @@ "\t" :> <<"\\","t">> @@ "\f" :> <<"\\","f">>

encode_char(c, ensure_ascii) ==
  IF c \in DOMAIN ESCAPE_DCT THEN ESCAPE_DCT[c]
  ELSE IF ensure_ascii /\ c \in NonAscii THEN <<"\\", "u">> \o UnicodeHex[c]
  ELSE <<c>>

RECURSIVE encode_chars(_, _)
encode_chars(s, ensure_ascii) ==
  IF s = <<>> THEN <<>>
  ELSE encode_char(Head(s), ensure_ascii) \o encode_chars(Tail(s), ensure_ascii)

\* json.dumps(s, ensure_ascii=...) of a str
encode_basestring(s, ensure_ascii) ==
  <<"\"">> \o encode_chars(s, ensure_ascii) \o <<"\"">>

\* json.dumps(s): ensure_ascii defaults to True
json_dumps(s) == encode_basestring(s, TRUE)

\* json.decoder.BACKSLASH
BACKSLASH ==
  "\"" :> "\"" @@ "\\" :> "\\" @@ "/" :> "/" @@ "f" :> "\f" @@
  "n" :> "\n" @@ "r" :> "\r" @@ "t" :> "\t"

WHITESPACE == {" ", "\t", "\n", "\r"}
ControlChars == {"\t", "\n", "\r", "\f"}
Digits == {"0", "1", "2", "3", "4", "5", "6", "7", "8", "9"}

Fail(e) == [exc |-> e, kind |-> "None", value |-> <<>>, end |-> 0]
Ok(k, v, e) == [exc |-> "None", kind |-> k, value |-> v, end |-> e]

RECURSIVE SkipWs(_, _)
SkipWs(s, i) ==
  IF i <= Len(s) /\ s[i] \in WHITESPACE THEN SkipWs(s, i + 1) ELSE i

RECURSIVE SkipDigits(_, _)
SkipDigits(s, i) ==
  IF i <= Len(s) /\ s[i] \in Digits THEN SkipDigits(s, i + 1) ELSE i

HasPrefix(s, i, p) ==
  i + Len(p) - 1 <= Len(s) /\ SubSeq(s, i, i + Len(p) - 1) = p

\* json.decoder.scanstring (strict): i is the position after the opening quote
RECURSIVE scanstring(_, _, _)
scanstring(s, i, acc) ==
  IF i > Len(s) THEN Fail("JSONDecodeError")
  ELSE IF s[i] = "\"" THEN Ok("str", acc, i + 1)
  ELSE IF s[i] = "\\" THEN
    IF i + 1 > Len(s) THEN Fail("JSONDecodeError")
    ELSE IF s[i + 1] \in DOMAIN BACKSLASH
      THEN scanstring(s, i + 2, Append(acc, BACKSLASH[s[i + 1]]))
    ELSE IF /\ s[i + 1] = "u" /\ i + 5 <= Len(s)
            /\ \E c \in NonAscii : UnicodeHex[c] = SubSeq(s, i + 2, i + 5)
      THEN scanstring(s, i + 6,
             Append(acc, CHOOSE c \in NonAscii :
                           UnicodeHex[c] = SubSeq(s, i + 2, i + 5)))
    ELSE Fail("JSONDecodeError")
  ELSE IF s[i] \in ControlChars THEN Fail("JSONDecodeError")
  ELSE scanstring(s, i + 1, Append(acc, s[i]))

\* json.scanner scan_once with JSONArray and JSONObject; depth counts the
\* enclosing arrays and objects (Py_EnterRecursiveCall in the scanner)
RECURSIVE scan_once(_, _, _)
RECURSIVE ArrayItems(_, _, _)
RECURSIVE ObjectItems(_, _, _)
scan_once(s, i, depth) ==
  IF i > Len(s) THEN Fail("JSONDecodeError")
  ELSE IF s[i] = "\"" THEN scanstring(s, i + 1, <<>>)
  ELSE IF s[i] \in {"[", "{"} THEN
    IF depth + 1 > RecursionLimit THEN Fail("RecursionError")
    ELSE LET j == SkipWs(s, i + 1) IN
      IF s[i] = "["
      THEN IF j <= Len(s) /\ s[j] = "]" THEN Ok("list", <<>>, j + 1)
           ELSE ArrayItems(s, j, depth + 1)
      ELSE IF j <= Len(s) /\ s[j] = "}" THEN Ok("dict", <<>>, j + 1)
           ELSE ObjectItems(s, j, depth + 1)
  ELSE IF HasPrefix(s, i, <<"n","u","l","l">>) THEN Ok("NoneType", <<>>, i + 4)
  ELSE IF HasPrefix(s, i, <<"t","r","u","e">>) THEN Ok("bool", <<>>, i + 4)
  ELSE IF HasPrefix(s, i, <<"f","a","l","s","e">>) THEN Ok("bool", <<>>, i + 5)
  ELSE IF s[i] \in Digits THEN Ok("int", <<>>, SkipDigits(s, i))
  ELSE IF s[i] = "-" /\ i + 1 <= Len(s) /\ s[i + 1] \in Digits
    THEN Ok("int", <<>>, SkipDigits(s, i + 1))
  ELSE Fail("JSONDecodeError")

ArrayItems(s, i, depth) ==
  LET r == scan_once(s, i, depth) IN
  IF r.exc # "None" THEN r
  ELSE LET k == SkipWs(s, r.end) IN
    IF k > Len(s) THEN Fail("JSONDecodeError")
    ELSE IF s[k] = "]" THEN Ok("list", <<>>, k + 1)
    ELSE IF s[k] = "," THEN ArrayItems(s, SkipWs(s, k + 1), depth)
    ELSE Fail("JSONDecodeError")

ObjectItems(s, i, depth) ==
  IF i > Len(s) \/ s[i] # "\"" THEN Fail("JSONDecodeError")
  ELSE LET key == scanstring(s, i + 1, <<>>) IN
    IF key.exc # "None" THEN key
    ELSE LET c == SkipWs(s, key.end) IN
      IF c > Len(s) \/ s[c] # ":" THEN Fail("JSONDecodeError")
      ELSE LET r == scan_once(s, SkipWs(s, c + 1), depth) IN
        IF r.exc # "None" THEN r
        ELSE LET k == SkipWs(s, r.end) IN
          IF k > Len(s) THEN Fail("JSONDecodeError")
          ELSE IF s[k] = "}" THEN Ok("dict", <<>>, k + 1)
          ELSE IF s[k] = "," THEN ObjectItems(s, SkipWs(s, k + 1), depth)
          ELSE Fail("JSONDecodeError")

\* json.loads(s) of a str: JSONDecoder.decode
json_loads(s) ==
  LET r == scan_once(s, SkipWs(s, 1), 0) IN
  IF r.exc # "None" THEN r
  ELSE IF SkipWs(s, r.end) # Len(s) + 1 THEN Fail("JSONDecodeError")
  ELSE r

(***************************************************************************)
(* transform.py: tokens, character types and the parser's state machine.   *)
(***************************************************************************)
Token(token_type, string_value) ==
  [token_type |-> token_type, string_value |-> string_value]

\* Python's None, where a Token may stand
NoneValue == Token("None", <<>>)

\* the sentinel EOF = object(): equal to no character
EOF == "<EOF>"

\* str.lower for the letters of the model
lower(char) ==
  CASE char = "A" -> "a" [] char = "I" -> "i" [] char = "Y" -> "y"
    [] char = "Ä" -> "ä" [] OTHER -> char

\* get_character_type with the test "char.lower() in VOWEL_CHARS"
get_character_type_casefold(char) ==
  IF char = EOF THEN "EOF"
  ELSE IF char \in SPACE_CHARS THEN "SPACE"
  ELSE IF lower(char) \in VOWEL_CHARS THEN "VOWEL"
  ELSE "CONSONANT"

get_character_type(char) ==
  IF char = EOF THEN "EOF"
  ELSE IF char \in SPACE_CHARS THEN "SPACE"
  ELSE IF char \in VOWEL_CHARS THEN "VOWEL"
  ELSE "CONSONANT"

Transition(next_state, callback) ==
  [next_state |-> next_state, callback |-> callback]

ParserStates ==
  {"init", "read_space", "read_word_first_part", "read_vowels",
   "read_word_second_part", "end_of_input"}

\* ParserState.token_type of the states initialize_state_machine creates
token_type(state) ==
  CASE state = "init" -> "SPACE"
    [] state = "read_space" -> "SPACE"
    [] state = "read_word_first_part" -> "WORD_FIRST_PART"
    [] state = "read_vowels" -> "WORD_FIRST_PART"
    [] state = "read_word_second_part" -> "WORD_SECOND_PART"
    [] state = "end_of_input" -> "None"

\* the transitions with read_vowels consuming a consonant instead of
\* finishing the token first
transitions_vowels_consume(state) ==
  CASE state = "init" ->
         "SPACE" :> Transition("read_space", "none") @@
         "VOWEL" :> Transition("read_word_first_part", "none") @@
         "CONSONANT" :> Transition("read_word_first_part", "none") @@
         "EOF" :> Transition("end_of_input", "finish_token")
    [] state = "read_word_first_part" ->
         "SPACE" :> Transition("read_space", "finish_token") @@
         "VOWEL" :> Transition("read_vowels", "consume_char") @@
         "CONSONANT" :> Transition("read_word_first_part", "consume_char") @@
         "EOF" :> Transition("end_of_input", "finish_token")
    [] state = "read_vowels" ->
         "SPACE" :> Transition("read_space", "finish_token") @@
         "VOWEL" :> Transition("read_vowels", "consume_char") @@
         "CONSONANT" :> Transition("read_word_second_part", "consume_char") @@
         "EOF" :> Transition("end_of_input", "finish_token")
    [] state = "read_word_second_part" ->
         "SPACE" :> Transition("read_space", "finish_token") @@
         "VOWEL" :> Transition("read_word_second_part", "consume_char") @@
         "CONSONANT" :> Transition("read_word_second_part", "consume_char") @@
         "EOF" :> Transition("end_of_input", "finish_token")
    [] state = "read_space" ->
         "SPACE" :> Transition("read_space", "consume_char") @@
         "VOWEL" :> Transition("read_word_first_part", "finish_token") @@
         "CONSONANT" :> Transition("read_word_first_part", "finish_token") @@
         "EOF" :> Transition("end_of_input", "finish_token")
    [] state = "end_of_input" -> [ct \in {} |-> Transition("end_of_input", "none")]

\* the transitions without those of read_space
transitions_without_read_space(state) ==
  CASE state = "init" ->
         "SPACE" :> Transition("read_space", "none") @@
         "VOWEL" :> Transition("read_word_first_part", "none") @@
         "CONSONANT" :> Transition("read_word_first_part", "none") @@
         "EOF" :> Transition("end_of_input", "finish_token")
    [] state = "read_word_first_part" ->
         "SPACE" :> Transition("read_space", "finish_token") @@
         "VOWEL" :> Transition("read_vowels", "consume_char") @@
         "CONSONANT" :> Transition("read_word_first_part", "consume_char") @@
         "EOF" :> Transition("end_of_input", "finish_token")
    [] state = "read_vowels" ->
         "SPACE" :> Transition("read_space", "finish_token") @@
         "VOWEL" :> Transition("read_vowels", "consume_char") @@
         "CONSONANT" :> Transition("read_word_second_part", "finish_token") @@
         "EOF" :> Transition("end_of_input", "finish_token")
    [] state = "read_word_second_part" ->
         "SPACE" :> Transition("read_space", "finish_token") @@
         "VOWEL" :> Transition("read_word_second_part", "consume_char") @@
         "CONSONANT" :> Transition("read_word_second_part", "consume_char") @@
         "EOF" :> Transition("end_of_input", "finish_token")
    [] state = "read_space" -> [ct \in {} |-> Transition("end_of_input", "none")]
    [] state = "end_of_input" -> [ct \in {} |-> Transition("end_of_input", "none")]

\* ParserState.transitions of each state after initialize_state_machine;
\* add_transition turns a callback of None into a function returning None
transitions(state) ==
  CASE state = "init" ->
         "SPACE" :> Transition("read_space", "none") @@
         "VOWEL" :> Transition("read_word_first_part", "none") @@
         "CONSONANT" :> Transition("read_word_first_part", "none") @@
         "EOF" :> Transition("end_of_input", "finish_token")
    [] state = "read_word_first_part" ->
         "SPACE" :> Transition("read_space", "finish_token") @@
         "VOWEL" :> Transition("read_vowels", "consume_char") @@
         "CONSONANT" :> Transition("read_word_first_part", "consume_char") @@
         "EOF" :> Transition("end_of_input", "finish_token")
    [] state = "read_vowels" ->
         "SPACE" :> Transition("read_space", "finish_token") @@
         "VOWEL" :> Transition("read_vowels", "consume_char") @@
         "CONSONANT" :> Transition("read_word_second_part", "finish_token") @@
         "EOF" :> Transition("end_of_input", "finish_token")
    [] state = "read_word_second_part" ->
         "SPACE" :> Transition("read_space", "finish_token") @@
         "VOWEL" :> Transition("read_word_second_part", "consume_char") @@
         "CONSONANT" :> Transition("read_word_second_part", "consume_char") @@
         "EOF" :> Transition("end_of_input", "finish_token")
    [] state = "read_space" ->
         "SPACE" :> Transition("read_space", "consume_char") @@
         "VOWEL" :> Transition("read_word_first_part", "finish_token") @@
         "CONSONANT" :> Transition("read_word_first_part", "finish_token") @@
         "EOF" :> Transition("end_of_input", "finish_token")
    [] state = "end_of_input" -> [ct \in {} |-> Transition("end_of_input", "none")]

\* WordParser.current_char (current_char_idx counts from 0)
current_char_of(input_string, idx) ==
  IF idx >= Len(input_string) THEN EOF ELSE input_string[idx + 1]

\* A parser is the record of the fields of a WordParser; finished_token[s] is
\* the attribute finished_token of the ParserState s.
Parser(input_string, idx, state, buffer, finished) ==
  [input_string |-> input_string, current_char_idx |-> idx,
   current_state |-> state, current_token_buffer |-> buffer,
   finished_token |-> finished]

\* The outcome of a callback: the parser after it, the value it returns and
\* the exception it raises.
Outcome(parser, ret, exc) == [parser |-> parser, ret |-> ret, exc |-> exc]

\* next_char with "self.current_char_idx += 2"
next_char_by_two(p) ==
  IF p.current_char_idx >= Len(p.input_string)
  THEN Outcome(p, NoneValue, "WordTransformLogicError")
  ELSE Outcome([p EXCEPT !.current_char_idx = @ + 2], NoneValue, "None")

next_char(p) ==
  IF p.current_char_idx >= Len(p.input_string)
  THEN Outcome(p, NoneValue, "WordTransformLogicError")
  ELSE Outcome([p EXCEPT !.current_char_idx = @ + 1], NoneValue, "None")

\* consume_char without the call of next_char
consume_char_no_advance(p) ==
  Outcome([p EXCEPT !.current_token_buffer =
             Append(@, current_char_of(p.input_string, p.current_char_idx))],
          NoneValue, "None")

\* writes the current character to the buffer, calls next_char and drops
\* its value: the method returns None
consume_char(p) ==
  LET written == [p EXCEPT !.current_token_buffer =
                    Append(@, current_char_of(p.input_string, p.current_char_idx))]
  IN next_char(written)

\* finish_token followed by a call of next_char
finish_token_advancing(p) ==
  next_char([p EXCEPT
               !.finished_token[p.current_state] =
                  Token(token_type(p.current_state), p.current_token_buffer),
               !.current_token_buffer = <<>>])

\* stores the Token in the attribute finished_token of the current state and
\* replaces the buffer; the method has no return statement: it returns None
finish_token(p) ==
  Outcome([p EXCEPT
             !.finished_token[p.current_state] =
                Token(token_type(p.current_state), p.current_token_buffer),
             !.current_token_buffer = <<>>],
          NoneValue, "None")

callback(name, p) ==
  CASE name = "consume_char" -> consume_char(p)
    [] name = "finish_token" -> finish_token(p)
    [] name = "none" -> Outcome(p, NoneValue, "None")

\* ParserState.process_state of the parser's current state: the lookup, the
\* callback's outcome and the next state (the caller assigns it)
process_state(p, char) ==
  LET ct == get_character_type(char)
      table == transitions(p.current_state) IN
  IF ct \notin DOMAIN table
  THEN [next_state |-> p.current_state,
        outcome |-> Outcome(p, NoneValue, "KeyError")]
  ELSE [next_state |-> table[ct].next_state,
        outcome |-> callback(table[ct].callback, p)]

\* "if finished_token:" a Token is a non-empty tuple, None is false
truthy(value) == value # NoneValue

(***************************************************************************)
(* transform_words_generator: the body of the loop over the tokens.        *)
(***************************************************************************)
RECURSIVE string_values(_)
string_values(toks) ==
  IF toks = <<>> THEN <<>>
  ELSE <<Head(toks).string_value>> \o string_values(Tail(toks))

\* The loop body as its comment describes it: tokens are buffered from a
\* WORD_FIRST_PART on, and the matching WORD_FIRST_PART swaps the first and
\* the last of the buffer and flushes it.
process_token_buffering(pending, token) ==
  IF token.token_type = "WORD_FIRST_PART"
  THEN IF Len(pending) >= 1
       THEN [exc |-> "None", pending |-> <<>>,
             out |-> string_values(<<token>> \o Tail(pending)
                                     \o <<Head(pending)>>)]
       ELSE [exc |-> "None", pending |-> <<token>>, out |-> <<>>]
  ELSE IF Len(pending) = 0
  THEN [exc |-> "None", pending |-> pending, out |-> <<token.string_value>>]
  ELSE [exc |-> "None", pending |-> Append(pending, token), out |-> <<>>]

\* One pass of the for loop for one token: the pending_tokens after it, the
\* strings it yields and the exception it raises.  pending_tokens is a list:
\* pending_tokens.add raises AttributeError.
process_token(pending, token) ==
  IF token.token_type = "WORD_FIRST_PART"
  THEN [exc |-> "AttributeError", pending |-> pending, out |-> <<>>]
  ELSE IF Len(pending) = 0
  THEN [exc |-> "None", pending |-> pending,
        out |-> <<token.string_value>> \o string_values(pending)]
  ELSE [exc |-> "None", pending |-> Append(pending, token),
        out |-> string_values(Append(pending, token))]

\* ''.join(chunks)
join(cs) == Concat(cs)

(***************************************************************************)
(* views.py: the responses of word_transform.                              *)
(***************************************************************************)
MsgUtf8Required == <<"u","t","f","-","8"," ","f","o","r","m","a","t","t","e","d"," ","i","n","p","u","t"," ","s","t","r","i","n","g"," ","r","e","q","u","i","r","e","d">>
MsgCouldNotProcess == <<"C","o","u","l","d"," ","n","o","t"," ","p","r","o","c","e","s","s"," ","t","h","e"," ","r","e","q","u","e","s","t">>
MsgInvalidRequest == <<"I","n","v","a","l","i","d"," ","r","e","q","u","e","s","t">>
MsgServerError == <<"S","e","r","v","e","r"," ","e","r","r","o","r">>

\* the except clauses with "except Exception" placed first
exception_response_generic_first(exc) ==
  [status |-> 500, content |-> utf8_encode(MsgServerError)]

\* the except clauses of word_transform, in their order
exception_response(exc) ==
  IF exc = "WordTransformLogicError"
  THEN [status |-> 500, content |-> utf8_encode(MsgCouldNotProcess)]
  ELSE IF exc = "WordTransformException"
  THEN [status |-> 400, content |-> utf8_encode(MsgInvalidRequest)]
  ELSE [status |-> 500, content |-> utf8_encode(MsgServerError)]

(***************************************************************************)
(* The inputs.                                                             *)
(***************************************************************************)
StrArg(s) == [type |-> "str", value |-> s]
NoArg == [type |-> "NoneType", value |-> <<>>]

JsonStrings == {encode_basestring(t, ea) : t \in Texts, ea \in BOOLEAN}

\* unclosed arrays nested deeper than the decoder's recursion limit
DeepArray == [i \in 1..(RecursionLimit + 1) |-> "["]

OtherStrings ==
  { <<>>, <<"{","}">>, <<"[","\"","a","a","\"","]">>, <<"\"","a","b">>, <<"a","b">>, <<"4","3">>, <<"n","u","l","l">>, <<"\"","a","\t","b","\"">>, <<"{","\"","a","\"",":"," ","1","}">>, <<"\"","a","\""," ","b">>, <<" ","\"","a"," ","b","\""," ">>, <<"[","]">>, DeepArray }

Args == {StrArg(s) : s \in JsonStrings \cup OtherStrings}
          \cup {[type |-> t, value |-> <<>>] : t \in {"bytes", "int", "NoneType", "list"}}

Bodies == {utf8_encode(s) : s \in JsonStrings \cup OtherStrings}
            \cup {<<255>>, <<34, 195>>, <<34, 228, 34>>}

NoFinished == [s \in ParserStates |-> NoneValue]

(***************************************************************************)
(* The state machine.                                                      *)
(*   pc = "request"   word_transform has received the request             *)
(*   pc = "call"      transform_words is about to run on json_string      *)
(*   pc = "tokens"    the generators are at the head of the while loop    *)
(*   pc = "returned"  transform_words has returned result                 *)
(*   pc = "raised"    transform_words has raised exception                *)
(*   pc = "done"      word_transform has returned the response            *)
(***************************************************************************)
Init ==
  /\ entry \in {"view", "direct"}
  /\ IF entry = "view"
     THEN /\ request_body \in Bodies
          /\ json_string = NoArg
          /\ pc = "request"
     ELSE /\ request_body = <<>>
          /\ json_string \in Args
          /\ pc = "call"
  /\ first_arg = json_string
  /\ calls = 0
  /\ decoded_input = <<>>
  /\ current_char_idx = 0
  /\ current_state = "init"
  /\ current_token_buffer = <<>>
  /\ finished_token = NoFinished
  /\ tokens = <<>>
  /\ pending_tokens = <<>>
  /\ chunks = <<>>
  /\ exception = "None"
  /\ result = <<>>
  /\ status = 0
  /\ content = <<>>

\* word_transform, up to the call of transform_words: decodes the body and
\* answers 400 when it is not UTF-8
ViewCall ==
  /\ pc = "request"
  /\ LET d == utf8_decode(request_body, 1, <<>>) IN
     IF d.exc # "None"
     THEN /\ exception' = d.exc
          /\ status' = 400
          /\ content' = utf8_encode(MsgUtf8Required)
          /\ pc' = "done"
          /\ UNCHANGED <<json_string, first_arg>>
     ELSE /\ json_string' = StrArg(d.value)
          /\ first_arg' = StrArg(d.value)
          /\ pc' = "call"
          /\ UNCHANGED <<exception, status, content>>
  /\ UNCHANGED <<entry, request_body, calls, decoded_input, current_char_idx,
                 current_state, current_token_buffer, finished_token, tokens,
                 pending_tokens, chunks, result>>

\* transform_words_generator up to the for loop: the checks of the argument,
\* then WordParser(decoded_input) and the first lines of generate_tokens
Call ==
  /\ pc = "call"
  /\ calls' = calls + 1
  /\ LET r == IF json_string.type = "str" THEN json_loads(json_string.value)
              ELSE Fail("None")
         exc == IF json_string.type # "str" THEN "WordTransformException"
                ELSE IF r.exc = "JSONDecodeError" THEN "WordTransformException"
                ELSE IF r.exc # "None" THEN r.exc
                ELSE IF r.kind # "str" THEN "WordTransformException"
                ELSE "None"
     IN /\ exception' = exc
        /\ pc' = IF exc = "None" THEN "tokens" ELSE "raised"
        /\ decoded_input' = IF exc = "None" THEN r.value ELSE <<>>
  /\ current_char_idx' = 0
  /\ current_state' = "init"
  /\ current_token_buffer' = <<>>
  /\ finished_token' = NoFinished
  /\ tokens' = <<>>
  /\ pending_tokens' = <<>>
  /\ chunks' = <<>>
  /\ result' = <<>>
  /\ UNCHANGED <<entry, request_body, json_string, first_arg, status, content>>

\* One pass of the while loop of generate_tokens, with the pass of the for
\* loop of transform_words_generator that a yielded token runs.
Step ==
  /\ pc = "tokens"
  /\ current_char_of(decoded_input, current_char_idx) # EOF
  /\ LET p == Parser(decoded_input, current_char_idx, current_state,
                     current_token_buffer, finished_token)
         ps == process_state(p, current_char_of(decoded_input, current_char_idx))
         q == ps.outcome.parser
         token == ps.outcome.ret
         yields == ps.outcome.exc = "None" /\ truthy(token)
         body == IF yields THEN process_token(pending_tokens, token)
                 ELSE [exc |-> "None", pending |-> pending_tokens, out |-> <<>>]
         stuck == /\ ps.next_state = current_state
                  /\ q.current_char_idx = current_char_idx
         exc == IF ps.outcome.exc # "None" THEN ps.outcome.exc
                ELSE IF body.exc # "None" THEN body.exc
                ELSE IF stuck THEN "WordTransformLogicError"
                ELSE "None"
     IN /\ current_char_idx' = q.current_char_idx
        /\ current_token_buffer' = q.current_token_buffer
        /\ finished_token' = q.finished_token
        /\ current_state' = IF ps.outcome.exc = "None" THEN ps.next_state
                            ELSE current_state
        /\ tokens' = IF yields THEN Append(tokens, token) ELSE tokens
        /\ pending_tokens' = body.pending
        /\ chunks' = chunks \o body.out
        /\ exception' = exc
        /\ pc' = IF exc = "None" THEN "tokens" ELSE "raised"
  /\ UNCHANGED <<entry, request_body, json_string, first_arg, calls,
                 decoded_input, result, status, content>>

\* current_char is EOF: the while loop and both generators end, and
\* transform_words returns json.dumps(''.join(...))
Finish ==
  /\ pc = "tokens"
  /\ current_char_of(decoded_input, current_char_idx) = EOF
  /\ result' = json_dumps(join(chunks))
  /\ pc' = "returned"
  /\ UNCHANGED <<entry, request_body, json_string, first_arg, calls,
                 decoded_input, current_char_idx, current_state,
                 current_token_buffer, finished_token, tokens, pending_tokens,
                 chunks, exception, status, content>>

\* word_transform after transform_words: the except clauses, or the
\* HttpResponse with the returned string
ViewRespond ==
  /\ entry = "view"
  /\ pc \in {"returned", "raised"}
  /\ status' = IF pc = "raised" THEN exception_response(exception).status ELSE 200
  /\ content' = IF pc = "raised" THEN exception_response(exception).content
                ELSE utf8_encode(result)
  /\ pc' = "done"
  /\ UNCHANGED <<entry, request_body, json_string, first_arg, calls,
                 decoded_input, current_char_idx, current_state,
                 current_token_buffer, finished_token, tokens, pending_tokens,
                 chunks, exception, result>>

\* A caller passes the string transform_words returned to transform_words again
Reapply ==
  /\ entry = "direct"
  /\ pc = "returned"
  /\ calls < MaxCalls
  /\ json_string' = StrArg(result)
  /\ pc' = "call"
  /\ UNCHANGED <<entry, request_body, first_arg, calls, decoded_input,
                 current_char_idx, current_state, current_token_buffer,
                 finished_token, tokens, pending_tokens, chunks, exception,
                 result, status, content>>

Next == ViewCall \/ Call \/ Step \/ Finish \/ ViewRespond \/ Reapply

Spec == Init /\ [][Next]_vars

(***************************************************************************)
(* The loop of transform_words_generator on its own: its body run on an    *)
(* arbitrary sequence of tokens, one token per step.  tokens holds the     *)
(* tokens received so far.                                                 *)
(***************************************************************************)
Fragments ==
  { Token("SPACE", <<" ">>), Token("SPACE", <<" ", " ">>),
    Token("WORD_FIRST_PART", <<"a">>), Token("WORD_FIRST_PART", <<"b", "a">>),
    Token("WORD_SECOND_PART", <<"b">>),
    Token("WORD_SECOND_PART", <<"r", "b", "u">>) }

InitEngine ==
  /\ entry = "engine"
  /\ pc = "loop"
  /\ request_body = <<>>
  /\ json_string = NoArg
  /\ first_arg = NoArg
  /\ calls = 0
  /\ decoded_input = <<>>
  /\ current_char_idx = 0
  /\ current_state = "init"
  /\ current_token_buffer = <<>>
  /\ finished_token = NoFinished
  /\ tokens = <<>>
  /\ pending_tokens = <<>>
  /\ chunks = <<>>
  /\ exception = "None"
  /\ result = <<>>
  /\ status = 0
  /\ content = <<>>

\* one pass of the for loop, for the token the loop receives
EngineStep ==
  /\ pc = "loop"
  /\ Len(tokens) < MaxFragments
  /\ \E token \in Fragments :
       LET body == process_token(pending_tokens, token) IN
       /\ tokens' = Append(tokens, token)
       /\ pending_tokens' = body.pending
       /\ chunks' = chunks \o body.out
       /\ exception' = body.exc
       /\ pc' = IF body.exc = "None" THEN "loop" ELSE "raised"
  /\ UNCHANGED <<entry, request_body, json_string, first_arg, calls,
                 decoded_input, current_char_idx, current_state,
                 current_token_buffer, finished_token, result, status,
                 content>>

NextEngine == EngineStep

SpecEngine == InitEngine /\ [][NextEngine]_vars

(***************************************************************************)
(* Vocabulary of the properties: words, heads and space runs of a text,    *)
(* written from the definitions of the specification.                      *)
(***************************************************************************)
VowelLetters == {"a", "e", "i", "o", "u", "y", "å", "ä", "ö"}
UpperVowelLetters == {"A", "I", "Y"}

Take(t, n) == SubSeq(t, 1, n)
Drop(t, n) == SubSeq(t, n + 1, Len(t))

RECURSIVE LeadingSpaces(_)
LeadingSpaces(t) ==
  IF t # <<>> /\ Head(t) = " " THEN 1 + LeadingSpaces(Tail(t)) ELSE 0

RECURSIVE WordLen(_)
WordLen(t) ==
  IF t # <<>> /\ Head(t) # " " THEN 1 + WordLen(Tail(t)) ELSE 0

RECURSIVE LeadingNonVowels(_)
LeadingNonVowels(w) ==
  IF w # <<>> /\ Head(w) \notin VowelLetters
  THEN 1 + LeadingNonVowels(Tail(w)) ELSE 0

RECURSIVE LeadingVowels(_)
LeadingVowels(w) ==
  IF w # <<>> /\ Head(w) \in VowelLetters
  THEN 1 + LeadingVowels(Tail(w)) ELSE 0

\* length of the head of the word w: its leading non-vowels and the vowel
\* run that follows them
HeadLen(w) ==
  LeadingNonVowels(w) + LeadingVowels(Drop(w, LeadingNonVowels(w)))

RECURSIVE WordCount(_)
WordCount(t) ==
  LET r == Drop(t, LeadingSpaces(t)) IN
  IF r = <<>> THEN 0 ELSE 1 + WordCount(Drop(r, WordLen(r)))

\* the text t with the heads of its 1st and 2nd, 3rd and 4th, ... words
\* exchanged and everything else in place
RECURSIVE SwapHeads(_)
SwapHeads(t) ==
  LET s1 == LeadingSpaces(t)
      r1 == Drop(t, s1)
      w1 == Take(r1, WordLen(r1))
      r2 == Drop(r1, Len(w1))
      s2 == LeadingSpaces(r2)
      r3 == Drop(r2, s2)
      w2 == Take(r3, WordLen(r3))
  IN IF r1 = <<>> \/ r3 = <<>> THEN t
     ELSE Take(t, s1) \o Take(w2, HeadLen(w2)) \o Drop(w1, HeadLen(w1))
            \o Take(r2, s2) \o Take(w1, HeadLen(w1)) \o Drop(w2, HeadLen(w2))
            \o SwapHeads(Drop(r3, Len(w2)))

\* the maximal runs of spaces of t, each as <<first position, last position>>
SpaceRuns(t) ==
  {r \in (1..Len(t)) \X (1..Len(t)) :
     /\ r[1] <= r[2]
     /\ \A k \in r[1]..r[2] : t[k] = " "
     /\ r[1] = 1 \/ t[r[1] - 1] # " "
     /\ r[2] = Len(t) \/ t[r[2] + 1] # " "}

\* positions of the last word of a text that has a word
LastWordEnd(t) == CHOOSE e \in 1..Len(t) :
                    t[e] # " " /\ \A k \in (e + 1)..Len(t) : t[k] = " "
LastWordStart(t) == CHOOSE s \in 1..LastWordEnd(t) :
                      /\ \A k \in s..LastWordEnd(t) : t[k] # " "
                      /\ s = 1 \/ t[s - 1] = " "

\* the text that the string returned by transform_words encodes
DecodedResult == json_loads(result).value

\* the text of the first call's argument
FirstText == json_loads(first_arg.value).value

\* the call has ended, by a return or by an exception
CallEnded == pc \in {"returned", "raised"}

(***************************************************************************)
(* The properties.                                                         *)
(***************************************************************************)

\* C1: when generate_tokens is exhausted, the string values of the tokens it
\* yielded, concatenated in the order of emission, are the input text.
C1_Reconstruction ==
  pc = "returned" => Concat(string_values(tokens)) = decoded_input

\* C2: the text transform_words returns is the input text with the heads of
\* the words 1 and 2, 3 and 4, ... exchanged, and the space runs, the tails
\* and an unpaired last word in place.
C2_PairwiseHeadSwap ==
  pc = "returned" => DecodedResult = SwapHeads(decoded_input)

\* C3: every maximal run of spaces of the input text is a maximal run of
\* spaces of the output text, at the same positions.
C3_SpacePreservation ==
  pc = "returned" => SpaceRuns(decoded_input) \subseteq SpaceRuns(DecodedResult)

\* C4: when the input text has an odd number of words, its last word stands
\* unchanged at its positions in the output text, and a text of one word is
\* returned unchanged.
C4_OddTrailingWord ==
  (pc = "returned" /\ WordCount(decoded_input) % 2 = 1) =>
    /\ Len(DecodedResult) >= LastWordEnd(decoded_input)
    /\ SubSeq(DecodedResult, LastWordStart(decoded_input),
              LastWordEnd(decoded_input))
         = SubSeq(decoded_input, LastWordStart(decoded_input),
                  LastWordEnd(decoded_input))
    /\ WordCount(decoded_input) = 1 => DecodedResult = decoded_input

\* C5: when the text of the first call has an even number of words, the
\* second call, made on the string the first call returned, returns the
\* text of the first call.
C5_Involution ==
  (pc = "returned" /\ calls = 2 /\ WordCount(FirstText) % 2 = 0) =>
    DecodedResult = FirstText

\* C6: a text without a word (empty, or spaces only) is returned unchanged.
C6_ZeroWords ==
  (pc = "returned" /\ WordCount(decoded_input) = 0) =>
    DecodedResult = decoded_input

C8_UppercaseLeadingVowel ==
  LET t == decoded_input
      w1 == Take(t, WordLen(t))
      r2 == Drop(t, Len(w1))
      gap == Take(r2, LeadingSpaces(r2))
      w2 == Drop(r2, Len(gap))
      shaped(w) == /\ Len(w) >= 2
                   /\ w[1] \in UpperVowelLetters
                   /\ w[2] \notin VowelLetters \cup UpperVowelLetters
  IN (/\ pc = "returned"
      /\ WordCount(t) = 2
      /\ w2 # <<>> /\ WordLen(w2) = Len(w2)
      /\ shaped(w1) /\ shaped(w2))
     => DecodedResult
          = <<w2[1]>> \o Tail(w1) \o gap \o <<w1[1]>> \o Tail(w2)

\* the argument of transform_words is not a str, or not valid JSON, or
\* valid JSON that is not a string
InvalidArgument ==
  \/ json_string.type # "str"
  \/ json_loads(json_string.value).exc # "None"
  \/ json_loads(json_string.value).kind # "str"

\* C9: a call with an invalid argument ends by raising
\* WordTransformException, and no chunk has been yielded.
C9_InvalidRejected ==
  (CallEnded /\ InvalidArgument) =>
    (pc = "raised" /\ exception = "WordTransformException" /\ chunks = <<>>)

ValidArgument ==
  /\ json_string.type = "str"
  /\ json_loads(json_string.value).exc = "None"
  /\ json_loads(json_string.value).kind = "str"

\* the text that the body of the response encodes
DecodedContent == json_loads(utf8_decode(content, 1, <<>>).value).value

\* the step just taken is a pass of the while loop of generate_tokens
LoopPass == pc = "tokens" /\ pc' \in {"tokens", "raised"}

\* the character at the cursor
CurrentChar == current_char_of(decoded_input, current_char_idx)

Contains(t, c) == \E i \in 1..Len(t) : t[i] = c

\* C11: a call whose argument is a JSON string returns without an
\* exception, and the end point answers it with status 200 and a body that
\* is the transformed text (the heads exchanged pairwise).
C11_ValidNeverFails ==
  /\ (CallEnded /\ ValidArgument) => (pc = "returned" /\ exception = "None")
  /\ (pc = "done" /\ ValidArgument) =>
       (status = 200 /\ DecodedContent = SwapHeads(decoded_input))

\* C12: every pass of the while loop advances the cursor by one or changes
\* the state, and WordTransformLogicError is never raised.
C12_Progress ==
  /\ [][LoopPass => \/ current_char_idx' = current_char_idx + 1
                    \/ current_state' # current_state]_vars
  /\ [](exception # "WordTransformLogicError")

\* C12 witness: passes that moved the cursor in the same state (the second
\* part of a word is two characters long) after passes that changed the
\* state at the same cursor.
C12_Witness ==
  /\ pc = "tokens"
  /\ current_state = "read_word_second_part"
  /\ Len(current_token_buffer) >= 2

\* C13: when the loop has ended, the cursor is at the end of the text, the
\* current state is end_of_input and the token buffer is empty.
C13_TerminationInEnd ==
  pc = "returned" =>
    /\ current_char_idx = Len(decoded_input)
    /\ current_state = "end_of_input"
    /\ current_token_buffer = <<>>

\* C14: a letter å, ä or ö of the input text stands, as itself, in the
\* string transform_words returns and in the body of the response.
C14_NonAsciiVerbatim ==
  \A c \in {"å", "ä", "ö"} :
    /\ (pc = "returned" /\ Contains(decoded_input, c)) => Contains(result, c)
    /\ (pc = "done" /\ status = 200 /\ Contains(decoded_input, c)) =>
         Contains(utf8_decode(content, 1, <<>>).value, c)

\* C15: a pass of the loop whose transition has the callback finish_token
\* hands the consumer one more token, of the token type of the state that
\* is left and with the buffer as its string value, and empties the buffer.
C15_FinishEmission ==
  [][(/\ LoopPass
      /\ transitions(current_state)[get_character_type(CurrentChar)].callback
           = "finish_token")
     => /\ tokens' = Append(tokens, Token(token_type(current_state),
                                          current_token_buffer))
        /\ current_token_buffer' = <<>>]_vars

\* The table of section 4.1, with the states under the names of the code:
\* Init init, ReadSpace read_space, ReadWordHeadConsonants
\* read_word_first_part, ReadWordHeadVowels read_vowels, ReadWordTail
\* read_word_second_part, End end_of_input.
Section41Table(state) ==
  CASE state = "init" ->
         "SPACE" :> Transition("read_space", "none") @@
         "VOWEL" :> Transition("read_vowels", "none") @@
         "CONSONANT" :> Transition("read_word_first_part", "none") @@
         "EOF" :> Transition("end_of_input", "finish_token")
    [] state = "read_space" ->
         "SPACE" :> Transition("read_space", "consume_char") @@
         "VOWEL" :> Transition("read_vowels", "finish_token") @@
         "CONSONANT" :> Transition("read_word_first_part", "finish_token") @@
         "EOF" :> Transition("end_of_input", "finish_token")
    [] state = "read_word_first_part" ->
         "SPACE" :> Transition("read_space", "finish_token") @@
         "VOWEL" :> Transition("read_vowels", "consume_char") @@
         "CONSONANT" :> Transition("read_word_first_part", "consume_char") @@
         "EOF" :> Transition("end_of_input", "finish_token")
    [] state = "read_vowels" ->
         "SPACE" :> Transition("read_space", "finish_token") @@
         "VOWEL" :> Transition("read_vowels", "consume_char") @@
         "CONSONANT" :> Transition("read_word_second_part", "finish_token") @@
         "EOF" :> Transition("end_of_input", "finish_token")
    [] state = "read_word_second_part" ->
         "SPACE" :> Transition("read_space", "finish_token") @@
         "VOWEL" :> Transition("read_word_second_part", "consume_char") @@
         "CONSONANT" :> Transition("read_word_second_part", "consume_char") @@
         "EOF" :> Transition("end_of_input", "finish_token")

\* The table of section 4.1 with a vowel leading where a consonant leads,
\* to read_word_first_part, from init and from read_space.
AmendedTable(state) ==
  IF state \in {"init", "read_space"}
  THEN [Section41Table(state) EXCEPT
          !["VOWEL"] = Transition("read_word_first_part", @.callback)]
  ELSE Section41Table(state)

NonTerminalStates == ParserStates \ {"end_of_input"}

\* the pass of the loop just taken had the effect of the named action on
\* the cursor, the buffer and the finished_token attributes
Applied(action) ==
  CASE action = "none" ->
         /\ current_char_idx' = current_char_idx
         /\ current_token_buffer' = current_token_buffer
         /\ finished_token' = finished_token
    [] action = "consume_char" ->
         /\ current_char_idx' = current_char_idx + 1
         /\ current_token_buffer' = Append(current_token_buffer, CurrentChar)
         /\ finished_token' = finished_token
    [] action = "finish_token" ->
         /\ current_char_idx' = current_char_idx
         /\ current_token_buffer' = <<>>
         /\ finished_token' =
              [finished_token EXCEPT ![current_state] =
                 Token(token_type(current_state), current_token_buffer)]

\* a pass of the loop moves to the next state of the table's entry for the
\* current state and the class of the character at the cursor, and applies
\* the entry's action
ConformsTo(table(_)) ==
  LoopPass =>
    LET e == table(current_state)[get_character_type(CurrentChar)] IN
    current_state' = e.next_state /\ Applied(e.callback)

IsWordToken(token) == token.token_type # "SPACE"

\* the Head of every word of t, followed by its Tail when the word is
\* longer than its head
RECURSIVE ExpectedWordTokens(_)
ExpectedWordTokens(t) ==
  LET r == Drop(t, LeadingSpaces(t))
      w == Take(r, WordLen(r))
  IN IF r = <<>> THEN <<>>
     ELSE <<Token("WORD_FIRST_PART", Take(w, HeadLen(w)))>>
            \o (IF HeadLen(w) < Len(w)
                THEN <<Token("WORD_SECOND_PART", Drop(w, HeadLen(w)))>>
                ELSE <<>>)
            \o ExpectedWordTokens(Drop(r, Len(w)))

\* C17: when generate_tokens is exhausted, the tokens it yielded that are
\* not spaces are, word by word, the Head of the word and, when the word is
\* longer than its head, its Tail; no Tail is empty, and every Tail follows
\* a Head immediately.
C17_HeadTailShape ==
  pc = "returned" =>
    /\ SelectSeq(tokens, IsWordToken) = ExpectedWordTokens(decoded_input)
    /\ \A i \in 1..Len(tokens) :
         tokens[i].token_type = "WORD_SECOND_PART" =>
           /\ tokens[i].string_value # <<>>
           /\ i > 1
           /\ tokens[i - 1].token_type = "WORD_FIRST_PART"

\* C18: for the empty text the tokenizer yields one token, a SPACE with an
\* empty string value, and ends in end_of_input.
C18_EmptyInputFragment ==
  (pc = "returned" /\ decoded_input = <<>>) =>
    /\ tokens = <<Token("SPACE", <<>>)>>
    /\ current_state = "end_of_input"

Received == tokens'[Len(tokens')]

ReceivesToken == pc = "loop" /\ Len(tokens') = Len(tokens) + 1

\* C21: the pass of the loop that receives a WORD_FIRST_PART while one is
\* pending yields the string value of the received token, then that of the
\* pending one, and leaves pending_tokens empty; with none pending, the
\* received WORD_FIRST_PART starts a new pair: it becomes the pending token
\* and nothing is yielded.
C21_PairCompletion ==
  [][(ReceivesToken /\ Received.token_type = "WORD_FIRST_PART")
     => IF Len(pending_tokens) > 0
        THEN /\ chunks' = chunks \o <<Received.string_value,
                                       pending_tokens[1].string_value>>
             /\ pending_tokens' = <<>>
        ELSE /\ chunks' = chunks
             /\ pending_tokens' = <<Received>>]_vars

\* the callback of the transition that a pass of the loop takes
TakenCallback ==
  transitions(current_state)[get_character_type(CurrentChar)].callback

\* C22: a pass of the loop whose transition has the callback consume_char
\* appends the character at the cursor to the buffer and moves the cursor
\* forward by one; a pass whose transition has the callback finish_token or
\* no callback leaves the cursor where it is, so the next pass reads the
\* same character.
C22_CursorEffect ==
  [][LoopPass =>
       IF TakenCallback = "consume_char"
       THEN /\ current_token_buffer' =
                 Append(current_token_buffer, decoded_input[current_char_idx + 1])
            /\ current_char_idx' = current_char_idx + 1
       ELSE /\ current_char_idx' = current_char_idx
            /\ pc' = "tokens"
            /\ current_char_of(decoded_input', current_char_idx') = CurrentChar]_vars

\* C22 witness: characters have been consumed, read_vowels has finished its
\* token on a consonant and read_word_second_part is about to read that
\* consonant.
C22_Witness ==
  /\ pc = "tokens"
  /\ current_state = "read_word_second_part"
  /\ current_token_buffer = <<>>
  /\ current_char_idx >= 2
  /\ finished_token["read_vowels"] # NoneValue

CharacterTypes == {"SPACE", "VOWEL", "CONSONANT", "EOF"}

\* C23: every state of the parser has a transition for each of the four
\* character types, and no lookup of process_state fails.
C23_ExhaustiveTable ==
  /\ \A state \in ParserStates : DOMAIN transitions(state) = CharacterTypes
  /\ exception # "KeyError"

\* C23 as amended: every state but end_of_input has a transition for each
\* of the four character types; end_of_input has none, the loop never looks
\* up a transition in it, and no lookup of process_state fails.
C23_AmendedExhaustive ==
  /\ \A state \in NonTerminalStates :
       DOMAIN transitions(state) = CharacterTypes
  /\ DOMAIN transitions("end_of_input") = {}
  /\ pc = "tokens" => current_state \in NonTerminalStates
  /\ exception # "KeyError"

\* C23 witness: a call has returned after lookups in init and in the four
\* reading states, three of which have finished a token.
C23_Witness ==
  /\ pc = "returned"
  /\ current_state = "read_vowels"
  /\ \A state \in {"read_vowels", "read_word_second_part", "read_space"} :
       finished_token[state] # NoneValue

Occurrences(seq, x) == Cardinality({i \in 1..Len(seq) : seq[i] = x})

\* C24: when a call returns, the chunks yielded by transform_words_generator
\* are the string values of the tokens yielded by generate_tokens, each as
\* often as it was yielded; the joined output is as long as the decoded
\* input and has every character as often as the decoded input has it.
C24_EachFragmentOnce ==
  pc = "returned" =>
    /\ Len(chunks) = Len(tokens)
    /\ \A i \in 1..Len(tokens) :
         Occurrences(chunks, tokens[i].string_value)
           = Occurrences(string_values(tokens), tokens[i].string_value)
    /\ Len(join(chunks)) = Len(decoded_input)
    /\ \A i \in 1..Len(decoded_input) :
         Occurrences(join(chunks), decoded_input[i])
           = Occurrences(decoded_input, decoded_input[i])

\* C25: while generate_tokens runs and after it, current_char_idx is between
\* 0 and the length of the input string; no pass of the loop lowers it; a
\* pass that calls next_char (through consume_char) starts with the cursor
\* before the end of the input string, and the error of next_char is never
\* raised.
C25_CursorBounds ==
  /\ [](pc \in {"tokens", "returned"} =>
          /\ 0 <= current_char_idx
          /\ current_char_idx <= Len(decoded_input))
  /\ [][LoopPass =>
          /\ current_char_idx' >= current_char_idx
          /\ TakenCallback = "consume_char" =>
               current_char_idx < Len(decoded_input)]_vars
  /\ [](exception # "WordTransformLogicError")

\* C25 witness: the loop has moved the cursor to the end of an input string
\* of three or more characters.
C25_Witness ==
  /\ pc = "tokens"
  /\ Len(decoded_input) >= 3
  /\ current_char_idx = Len(decoded_input)

====
